---- MODULE Spec2Model ----
(***************************************************************************)
(* The streaming AI relay of score-smarts-ai: the ask-ai edge function     *)
(* (supabase/functions/ask-ai/index.ts) and the AskAI page's streamChat    *)
(* and handleSend.  Text is a sequence of one-character strings, so that   *)
(* a chunk boundary can fall at any character of the event stream.         *)
(***************************************************************************)
EXTENDS Integers, Sequences, FiniteSets, TLC

\* ------------------------------------------------------------------ bounds
\* Largest number of event lines the upstream provider streams to the AskAI
\* page in one session.
MaxLines == 2
\* Largest number of questions asked in one session of the AskAI page.
MaxQuestions == 1

\* ------------------------------------------------------------ text helpers
LF == "\n"
CR == "\r"
Whitespace == {" ", "\t", CR, LF}

\* String.prototype.indexOf(c), 1-based; 0 when c does not occur.
RECURSIVE IndexFrom(_, _, _)
IndexFrom(s, c, i) ==
  IF i > Len(s) THEN 0
  ELSE IF s[i] = c THEN i
  ELSE IndexFrom(s, c, i + 1)

IndexOf(s, c) == IndexFrom(s, c, 1)

StartsWith(s, p) == Len(s) >= Len(p) /\ SubSeq(s, 1, Len(p)) = p

EndsWith(s, p) == Len(s) >= Len(p) /\ SubSeq(s, Len(s) - Len(p) + 1, Len(s)) = p

\* String.prototype.trim()
RECURSIVE TrimStart(_)
TrimStart(s) ==
  IF s # <<>> /\ Head(s) \in Whitespace THEN TrimStart(Tail(s)) ELSE s

RECURSIVE TrimEnd(_)
TrimEnd(s) ==
  IF s # <<>> /\ s[Len(s)] \in Whitespace
  THEN TrimEnd(SubSeq(s, 1, Len(s) - 1))
  ELSE s

Trim(s) == TrimEnd(TrimStart(s))

\* ------------------------------------------------- the event-stream format
\* line.startsWith("data: ") and line.slice(6)
DataPrefix == <<"d", "a", "t", "a", ":", " ">>
PrefixLen == 6
DoneToken == <<"[", "D", "O", "N", "E", "]">>

\* {"choices":[{"delta":{"content":"  ...  "}}]}
DeltaHead ==
  <<"{", "\"", "c", "h", "o", "i", "c", "e", "s", "\"", ":", "[", "{", "\"",
    "d", "e", "l", "t", "a", "\"", ":", "{", "\"", "c", "o", "n", "t", "e",
    "n", "t", "\"", ":", "\"">>
DeltaTail == <<"\"", "}", "}", "]", "}">>

\* Characters that stand for themselves inside a JSON string.
PlainChars == {"a", "b", "H", "e", "l", "o", " "}

\* JSON documents without a text delta: a role-only delta and an empty object.
RoleOnlyJson ==
  <<"{", "\"", "c", "h", "o", "i", "c", "e", "s", "\"", ":", "[", "{", "\"",
    "d", "e", "l", "t", "a", "\"", ":", "{", "}", "}", "]", "}">>
EmptyObjectJson == <<"{", "}">>

IsDeltaJson(s) ==
  /\ Len(s) >= Len(DeltaHead) + Len(DeltaTail)
  /\ StartsWith(s, DeltaHead)
  /\ EndsWith(s, DeltaTail)
  /\ \A i \in (Len(DeltaHead) + 1)..(Len(s) - Len(DeltaTail)) : s[i] \in PlainChars

\* The try block of streamChat: JSON.parse(jsonStr) followed by
\* parsed.choices?.[0]?.delta?.content.  threw is TRUE when JSON.parse raises
\* a SyntaxError or the property access raises a TypeError (parsed is null);
\* content is <<>> when the field is absent or the empty string, the two
\* cases if (content) does not tell apart.
ParseDelta(jsonStr) ==
  IF IsDeltaJson(jsonStr)
  THEN [threw |-> FALSE,
        content |-> SubSeq(jsonStr, Len(DeltaHead) + 1, Len(jsonStr) - Len(DeltaTail))]
  ELSE IF jsonStr \in {RoleOnlyJson, EmptyObjectJson}
  THEN [threw |-> FALSE, content |-> <<>>]
  ELSE [threw |-> TRUE, content |-> <<>>]

\* What the upstream provider can put on one line of the body.
EventKinds ==
  {"Hel", "lo", "Done", "Truncated", "Comment", "Blank", "Other", "NoDelta"}

\* The lines the inner loop tells apart, one of each kind: a delta, the
\* terminator, two payloads that do not parse (cut short, and the data prefix
\* with nothing after it), and the lines without data: a comment, an empty
\* line, white space alone, another field, and the data field without the
\* space after its colon.
LineKinds ==
  {"Hel", "Done", "Truncated", "Bare", "Comment", "Blank", "Space", "Other", "NoSpace"}

\* The text delta an event carries, as the provider means it.
EventDelta(k) ==
  CASE k = "Hel" -> <<"H", "e", "l">>
    [] k = "lo" -> <<"l", "o">>
    [] OTHER -> <<>>

\* The line of an event, without its terminator.
EventLine(k) ==
  CASE k \in {"Hel", "lo"} -> DataPrefix \o DeltaHead \o EventDelta(k) \o DeltaTail
    [] k = "Done" -> DataPrefix \o DoneToken
    [] k = "Truncated" -> DataPrefix \o <<"{", "\"", "c", "h">>
    [] k = "Comment" -> <<":", "k">>
    [] k = "Blank" -> <<>>
    [] k = "Other" -> <<"i", "d", ":", "1">>
    [] k = "NoDelta" -> DataPrefix \o EmptyObjectJson
    [] k = "Space" -> <<" ", "\t">>
    [] k = "NoSpace" -> <<"d", "a", "t", "a", ":">> \o DoneToken
    [] k = "Bare" -> DataPrefix

\* Events that end in CR LF; the others end in LF.
CrLfKinds == {"lo", "Truncated", "Blank", "Space"}

EventEol(k) == IF k \in CrLfKinds THEN <<CR, LF>> ELSE <<LF>>

\* The bytes of a body that carries the events ks.
RECURSIVE BodyOf(_)
BodyOf(ks) ==
  IF ks = <<>> THEN <<>>
  ELSE EventLine(Head(ks)) \o EventEol(Head(ks)) \o BodyOf(Tail(ks))

EventSeqs == UNION {[1..n -> EventKinds] : n \in 0..MaxLines}

LineSeqs == UNION {[1..n -> LineKinds] : n \in 1..MaxLines}

\* ------------------------------------------------------------ JS values
Undefined == [t |-> "undefined", v |-> <<>>]

Str(s) == [t |-> "string", v |-> s]

\* ToBoolean of the values the model uses: undefined and "" are falsy.
Truthy(x) == x.t = "string" /\ x.v # <<>>

\* ------------------------------------------------------------------ state
VARIABLES
  keyConfigured,  \* Deno.env.get("LOVABLE_API_KEY") is set
  rpc,            \* where the relay handler stands
  req,            \* the request the relay is serving
  ctx,            \* syllabusContext and papersContext of the handler
  upstream,       \* the upstream provider's response to the relay's fetch
  resp,           \* the Response the handler returned
  rlog,           \* what the handler did for this request
  events,         \* the events the upstream provider has put on the body stream
  rd,             \* how many characters of the stream the reader has delivered
  sentLines,      \* how many event lines the page has been sent in this session
  user,           \* useAuth().user of the AskAI page
  cpc,            \* where handleSend / streamChat stands
  messages,       \* the transcript
  isLoading,
  question,       \* messageText of the running handleSend
  textBuffer,
  fullResponse,
  lineNo,         \* how many lines the decoder has consumed for good
  toasts,         \* the notifications raised
  outcome,        \* how the last streamChat ended
  pending,        \* the inserts handleSend has still to make
  dbLog,          \* the calls handleSend has made to the database, with their results
  running         \* how many calls of handleSend have not reached their end

relayVars == <<keyConfigured, rpc, req, ctx, upstream, resp, rlog>>
streamVars == <<events, rd, sentLines>>
dbVars == <<pending, dbLog>>
clientVars ==
  <<user, cpc, messages, isLoading, question, textBuffer, fullResponse, lineNo,
    toasts, outcome, dbVars, running>>
vars == <<relayVars, streamVars, clientVars>>

\* ------------------------------------------------------------------ relay
QuestionValues == {Undefined, Str(<<>>), Str(<<" ", " ">>), Str(<<"q">>)}

UserIdValues == {Undefined, Str(<<"u">>)}

NoRequest ==
  [method |-> "", from |-> "", json |-> "", question |-> Undefined, userId |-> Undefined]

\* The requests a caller other than the AskAI page can send.
CallerRequests ==
  {[method |-> "OPTIONS", from |-> "caller", json |-> "none",
    question |-> Undefined, userId |-> Undefined]}
  \cup {[method |-> "POST", from |-> "caller", json |-> j,
         question |-> Undefined, userId |-> Undefined] : j \in {"invalid", "null"}}
  \cup {[method |-> "POST", from |-> "caller", json |-> "object",
         question |-> q, userId |-> u] : q \in QuestionValues, u \in UserIdValues}

\* body is "none" (null), "json" (JSON.stringify({ error })) or "upstream" (the
\* upstream response's body stream, passed on as it is).
NoResponse == [status |-> 0, cors |-> FALSE, ctype |-> "", error |-> "", body |-> "none"]

\* new Response(JSON.stringify({ error }), { status, headers: corsHeaders + JSON })
JsonError(status, message) ==
  [status |-> status, cors |-> TRUE, ctype |-> "application/json", error |-> message,
   body |-> "json"]

\* new Response(null, { headers: corsHeaders })
OptionsResponse ==
  [status |-> 200, cors |-> TRUE, ctype |-> "", error |-> "", body |-> "none"]

\* A relay that answers a successful upstream call with a JSON document.
StreamResponseAsJson(up) ==
  [status |-> 200, cors |-> TRUE, ctype |-> "application/json", error |-> "",
   body |-> "json"]

\* new Response(response.body, { headers: corsHeaders + text/event-stream })
StreamResponse(up) ==
  [status |-> 200, cors |-> TRUE, ctype |-> "text/event-stream", error |-> "",
   body |-> IF up.hasBody THEN "upstream" ELSE "none"]

\* The catch block of the handler.
CaughtResponse(message) == JsonError(500, message)

\* A relay that hands the upstream error text to the caller.
ServiceErrorForwardsBody(errorText) == JsonError(500, errorText)

\* The answer to an upstream failure that is neither 429 nor 402.
ServiceError(errorText) == JsonError(500, "AI service error")

NoContext == [syllabus |-> "", papers |-> ""]

\* What the handler has done for the request: results are the outcomes of the
\* queries that have settled, prompt the two context lines of the system prompt
\* sent upstream, thrown the message of the exception raised inside the try
\* block, "" when there was none.
NoLog ==
  [bodyRead |-> FALSE, keyRead |-> FALSE, dbQueries |-> 0, results |-> <<>>,
   prompt |-> NoContext, upstreamCalls |-> 0, thrown |-> ""]

\* A prompt that leaves the line of an empty context empty.
OrElseNothing(text, placeholder) == text

\* text || placeholder
OrElse(text, placeholder) == IF text # "" THEN text ELSE placeholder

\* The lines of the system prompt under "Context about user's materials".
PromptContext(c) ==
  [syllabus |-> OrElse(c.syllabus, "No syllabus uploaded yet"),
   papers |-> OrElse(c.papers, "No past papers uploaded yet")]

NoUpstream == [status |-> 0, hasBody |-> FALSE, text |-> ""]

\* response.ok
Ok(status) == status >= 200 /\ status <= 299

FailureStatuses == {401, 402, 429, 500}

UpstreamErrorText == "upstream: quota exceeded for project 17"

\* What the upstream provider can answer to the relay's fetch: an event stream,
\* a success without a body, or a failure with a diagnostic text.
UpstreamResponses ==
  {[status |-> 200, hasBody |-> TRUE, text |-> ""],
   [status |-> 204, hasBody |-> FALSE, text |-> ""]}
  \cup {[status |-> s, hasBody |-> TRUE, text |-> UpstreamErrorText] :
          s \in FailureStatuses}

Respond(r) ==
  /\ resp' = r
  /\ rpc' = "responded"

\* A catch block that answers every exception with the same text.
CaughtUnknown(message, log) ==
  /\ Respond(JsonError(500, "Unknown error"))
  /\ rlog' = [log EXCEPT !.thrown = message]

\* An exception with this message is raised inside the try block, after the
\* effects in log, and the catch block answers it.
Caught(message, log) ==
  /\ Respond(CaughtResponse(message))
  /\ rlog' = [log EXCEPT !.thrown = message]

\* A relay that treats a pre-flight request like any other.
RelayServeWithoutPreflight ==
  /\ rpc = "received"
  /\ rpc' = "json"
  /\ rlog' = [rlog EXCEPT !.bodyRead = TRUE]
  /\ UNCHANGED <<keyConfigured, req, ctx, upstream, resp, streamVars, clientVars>>

\* The handler up to its first await: the OPTIONS answer, or req.json().
RelayServe ==
  /\ rpc = "received"
  /\ IF req.method = "OPTIONS"
     THEN /\ Respond(OptionsResponse)
          /\ UNCHANGED rlog
     ELSE /\ rpc' = "json"
          /\ rlog' = [rlog EXCEPT !.bodyRead = TRUE]
          /\ UNCHANGED resp
  /\ UNCHANGED <<keyConfigured, req, ctx, upstream, streamVars, clientVars>>

\* A relay that goes on without the credential.
KeyNeverMissing == FALSE

\* !LOVABLE_API_KEY
KeyMissing == ~keyConfigured

\* A relay that rejects only an absent question.
QuestionUndefined(q) == q.t = "undefined"

\* !question
QuestionMissing(q) == ~Truthy(q)

\* A relay that looks for the credential before it looks at the question.
RelayJsonKeyFirst ==
  /\ rpc = "json"
  /\ IF req.json = "invalid"
     THEN Caught("Unexpected token in JSON", rlog)
     ELSE IF req.json = "null"
     THEN Caught("Cannot destructure property of null", rlog)
     ELSE IF KeyMissing
     THEN Caught("LOVABLE_API_KEY is not configured", [rlog EXCEPT !.keyRead = TRUE])
     ELSE IF QuestionMissing(req.question)
     THEN Respond(JsonError(400, "Question is required"))
          /\ rlog' = [rlog EXCEPT !.keyRead = TRUE]
     ELSE IF Truthy(req.userId)
     THEN /\ rpc' = "syllabus"
          /\ rlog' = [rlog EXCEPT !.keyRead = TRUE, !.dbQueries = @ + 1]
          /\ UNCHANGED resp
     ELSE /\ rpc' = "fetch"
          /\ rlog' = [rlog EXCEPT !.keyRead = TRUE, !.upstreamCalls = @ + 1,
                                  !.prompt = PromptContext(ctx)]
          /\ UNCHANGED resp
  /\ UNCHANGED <<keyConfigured, req, ctx, upstream, streamVars, clientVars>>

\* req.json() settles; validation, the credential, and the first query or the fetch.
RelayJson ==
  /\ rpc = "json"
  /\ IF req.json = "invalid"
     THEN Caught("Unexpected token in JSON", rlog)
     ELSE IF req.json = "null"
     THEN Caught("Cannot destructure property of null", rlog)
     ELSE IF QuestionMissing(req.question)
     THEN Respond(JsonError(400, "Question is required")) /\ UNCHANGED rlog
     ELSE IF KeyMissing
     THEN Caught("LOVABLE_API_KEY is not configured", [rlog EXCEPT !.keyRead = TRUE])
     ELSE IF Truthy(req.userId)
     THEN /\ rpc' = "syllabus"
          /\ rlog' = [rlog EXCEPT !.keyRead = TRUE, !.dbQueries = @ + 1]
          /\ UNCHANGED resp
     ELSE /\ rpc' = "fetch"
          /\ rlog' = [rlog EXCEPT !.keyRead = TRUE, !.upstreamCalls = @ + 1,
                                  !.prompt = PromptContext(ctx)]
          /\ UNCHANGED resp
  /\ UNCHANGED <<keyConfigured, req, ctx, upstream, streamVars, clientVars>>

QueryResults == {"throws", "null", "empty", "rows"}

\* The syllabus query settles; the past_papers query is issued.
RelaySyllabus ==
  /\ rpc = "syllabus"
  /\ \E result \in QueryResults :
       IF result = "throws"
       THEN /\ Caught("query failed", [rlog EXCEPT !.results = Append(@, result)])
            /\ UNCHANGED ctx
       ELSE /\ ctx' = [ctx EXCEPT !.syllabus =
                         IF result = "rows"
                         THEN "User has uploaded 1 syllabus file(s): T" ELSE ""]
            /\ rpc' = "papers"
            /\ rlog' = [rlog EXCEPT !.dbQueries = @ + 1, !.results = Append(@, result)]
            /\ UNCHANGED resp
  /\ UNCHANGED <<keyConfigured, req, upstream, streamVars, clientVars>>

\* The past_papers query settles; the upstream fetch is issued.
RelayPapers ==
  /\ rpc = "papers"
  /\ \E result \in QueryResults :
       IF result = "throws"
       THEN /\ Caught("query failed", [rlog EXCEPT !.results = Append(@, result)])
            /\ UNCHANGED ctx
       ELSE /\ ctx' = [ctx EXCEPT !.papers =
                         IF result = "rows"
                         THEN "User has uploaded 1 past paper(s) from years: 2024" ELSE ""]
            /\ rpc' = "fetch"
            /\ rlog' = [rlog EXCEPT !.upstreamCalls = @ + 1,
                                    !.results = Append(@, result),
                                    !.prompt = PromptContext(ctx')]
            /\ UNCHANGED resp
  /\ UNCHANGED <<keyConfigured, req, upstream, streamVars, clientVars>>

\* A relay that passes every upstream response on as the event stream.
AfterFetchPassesOn(up) == Respond(StreamResponse(up))

\* The handler after the upstream fetch resolved with up.
AfterFetch(up) ==
  IF Ok(up.status) THEN Respond(StreamResponse(up))
  ELSE IF up.status = 429
  THEN Respond(JsonError(429, "Rate limit exceeded. Please try again later."))
  ELSE IF up.status = 402
  THEN Respond(JsonError(402, "Payment required. Please add credits to continue."))
  ELSE rpc' = "text" /\ UNCHANGED resp

\* A relay that calls the upstream provider again after a failure status.
RelayFetchRetries ==
  /\ rpc = "fetch"
  /\ \/ /\ Caught("fetch failed", rlog)
        /\ UNCHANGED upstream
     \/ \E up \in UpstreamResponses :
          /\ upstream' = up
          /\ IF ~Ok(up.status) /\ rlog.upstreamCalls < 2
             THEN /\ rlog' = [rlog EXCEPT !.upstreamCalls = @ + 1]
                  /\ UNCHANGED <<rpc, resp>>
             ELSE AfterFetch(up) /\ UNCHANGED rlog
  /\ UNCHANGED <<keyConfigured, req, ctx, streamVars, clientVars>>

\* The upstream fetch settles.
RelayFetch ==
  /\ rpc = "fetch"
  /\ \/ /\ Caught("fetch failed", rlog)
        /\ UNCHANGED upstream
     \/ \E up \in UpstreamResponses :
          /\ upstream' = up
          /\ AfterFetch(up)
          /\ UNCHANGED rlog
  /\ UNCHANGED <<keyConfigured, req, ctx, streamVars, clientVars>>

\* response.text() settles; the generic answer to any other upstream failure.
RelayText ==
  /\ rpc = "text"
  /\ Respond(ServiceError(upstream.text))
  /\ UNCHANGED <<keyConfigured, req, ctx, upstream, rlog, streamVars, clientVars>>

\* The relay is free again once its response has been taken.
RelayRelease ==
  /\ rpc' = "idle"
  /\ req' = NoRequest
  /\ ctx' = NoContext
  /\ upstream' = NoUpstream
  /\ resp' = NoResponse
  /\ rlog' = NoLog

\* A request reaches the relay.
Receive(r) ==
  /\ rpc' = "received"
  /\ req' = r
  /\ ctx' = NoContext
  /\ upstream' = NoUpstream
  /\ resp' = NoResponse
  /\ rlog' = NoLog

\* Another caller sends a request.
CallerRequest ==
  /\ rpc = "idle"
  /\ \E r \in CallerRequests : Receive(r)
  /\ UNCHANGED <<keyConfigured, streamVars, clientVars>>

\* The other caller takes the response.
CallerResponse ==
  /\ rpc = "responded"
  /\ req.from = "caller"
  /\ RelayRelease
  /\ UNCHANGED <<keyConfigured, streamVars, clientVars>>

\* ----------------------------------------------------------------- client
WelcomeMessage ==
  [id |-> "welcome", role |-> "assistant", content |-> <<"H", "e", "l", "l", "o", "!">>]

ApologyText == <<"I", "'", "m", " ", "s", "o", "r", "r", "y">>

UserMessage(text) == [id |-> "uuid", role |-> "user", content |-> text]

AssistantMessage(text) == [id |-> "uuid", role |-> "assistant", content |-> text]

\* The texts handleSend is called with.
MessageTexts == {<<"q">>}

Asked == Cardinality({i \in 1..Len(messages) : messages[i].role = "user"})

\* The questions handleSend has finished with.
Finished == Asked - running

\* What starts handleSend: the send button, the Enter key in the input, or a
\* suggested-question button.
Triggers == {"button", "enter", "suggested"}

\* A page that keeps the suggested questions on show.
SuggestedAlwaysShown == TRUE

\* The suggested questions are rendered: messages.length === 1.
SuggestedShown == Len(messages) = 1

\* The trigger is there for the user to use, with a non-blank text in the
\* input: the input and the send button are disabled while isLoading.
Enabled(via) ==
  IF via = "suggested" THEN SuggestedShown ELSE ~isLoading

\* handleSend up to the await of streamChat's fetch.
HandleSend ==
  /\ \E via \in Triggers : Enabled(via)
  /\ rpc = "idle"
  /\ Finished < MaxQuestions
  /\ \E text \in MessageTexts :
       /\ messages' = Append(messages, UserMessage(text))
       /\ question' = text
       /\ Receive([method |-> "POST", from |-> "client", json |-> "object",
                   question |-> Str(text), userId |-> user])
  /\ isLoading' = TRUE
  /\ running' = running + 1
  /\ cpc' = "fetch"
  /\ outcome' = "none"
  /\ events' = <<>>
  /\ rd' = 0
  /\ textBuffer' = <<>>
  /\ fullResponse' = <<>>
  /\ lineNo' = 0
  /\ pending' = <<>>
  /\ dbLog' = <<>>
  /\ UNCHANGED <<keyConfigured, sentLines, user, toasts>>

\* The finally block of handleSend.
Finally ==
  /\ isLoading' = FALSE
  /\ running' = running - 1
  /\ cpc' = "idle"

\* A catch block that raises the notification and appends nothing.
CatchSendWithoutApology(message) ==
  /\ toasts' = Append(toasts, message)
  /\ UNCHANGED messages
  /\ Finally

\* The catch and finally blocks of handleSend.
CatchSend(message) ==
  /\ toasts' = Append(toasts, message)
  /\ messages' = Append(messages, AssistantMessage(ApologyText))
  /\ Finally

\* streamChat's fetch resolves: the status checks, or the reader is taken.
FetchSettles ==
  /\ cpc = "fetch"
  /\ rpc = "responded"
  /\ req.from = "client"
  /\ IF resp.status = 429
     THEN /\ CatchSend("Rate limit exceeded. Please try again in a moment.")
          /\ outcome' = "error"
     ELSE IF resp.status = 402
     THEN /\ CatchSend("AI credits exhausted. Please contact support.")
          /\ outcome' = "error"
     ELSE IF ~Ok(resp.status) \/ resp.body = "none"
     THEN /\ CatchSend("Failed to get AI response")
          /\ outcome' = "error"
     ELSE /\ cpc' = "read"
          /\ UNCHANGED <<messages, isLoading, toasts, outcome, running>>
  /\ RelayRelease
  /\ UNCHANGED <<keyConfigured, streamVars, dbVars, user, question, textBuffer,
                 fullResponse, lineNo>>

\* The characters of the body stream so far.
Emitted(ks) == BodyOf(ks)

Front(ks) == SubSeq(ks, 1, Len(ks) - 1)

Max(a, b) == IF a >= b THEN a ELSE b

\* reader.read() resolves with a chunk, which is decoded onto the buffer.  The
\* chunk ends at any character of the stream: it completes the line that was
\* cut, carries whole lines, and may end inside a line.
ReadChunk ==
  /\ cpc = "read"
  /\ \E ks \in EventSeqs :
       /\ sentLines + Len(ks) <= MaxLines
       /\ events # <<>> \/ ks # <<>>
       /\ LET all == events \o ks
          IN \E to \in (Max(rd, Len(Emitted(Front(all)))) + 1)..Len(Emitted(all)) :
               /\ textBuffer' = textBuffer \o SubSeq(Emitted(all), rd + 1, to)
               /\ rd' = to
       /\ events' = events \o ks
       /\ sentLines' = sentLines + Len(ks)
  /\ cpc' = "lines"
  /\ UNCHANGED <<relayVars, dbVars, running, user, messages, isLoading, question,
                 fullResponse, lineNo,
                 toasts, outcome>>

\* reader.read() resolves with a chunk that ends at the end of a line.
ReadLines ==
  /\ cpc = "read"
  /\ \E ks \in LineSeqs :
       /\ sentLines + Len(ks) <= MaxLines
       /\ textBuffer' = textBuffer \o Emitted(ks)
       /\ events' = events \o ks
       /\ rd' = rd + Len(Emitted(ks))
       /\ sentLines' = sentLines + Len(ks)
  /\ cpc' = "lines"
  /\ UNCHANGED <<relayVars, dbVars, running, user, messages, isLoading, question,
                 fullResponse, lineNo, toasts, outcome>>

\* reader.read() rejects: streamChat throws into handleSend's catch, and its
\* buffer and running text are gone with it.
ReadFails ==
  /\ cpc = "read"
  /\ CatchSend("network error")
  /\ outcome' = "error"
  /\ events' = <<>>
  /\ rd' = 0
  /\ textBuffer' = <<>>
  /\ fullResponse' = <<>>
  /\ lineNo' = 0
  /\ UNCHANGED <<relayVars, sentLines, dbVars, user, question>>

HasLine(buffer) == IndexOf(buffer, LF) # 0

\* The next line of the buffer, a trailing "\r" stripped, and what follows it.
TakeLine(buffer) ==
  LET newlineIndex == IndexOf(buffer, LF)
      raw == SubSeq(buffer, 1, newlineIndex - 1)
  IN [line |-> IF EndsWith(raw, <<CR>>) THEN SubSeq(raw, 1, Len(raw) - 1) ELSE raw,
      rest |-> SubSeq(buffer, newlineIndex + 1, Len(buffer))]

\* A decoder that skips comment lines only.
IgnoredCommentsOnly(line) == StartsWith(line, <<":">>)

\* The lines the inner loop skips.
Ignored(line) ==
  \/ StartsWith(line, <<":">>)
  \/ Trim(line) = <<>>
  \/ ~StartsWith(line, DataPrefix)

JsonStr(line) == Trim(SubSeq(line, PrefixLen + 1, Len(line)))

\* A decoder that drops the line whose payload failed to parse.
PushBackDropsLine(line, rest) == rest

\* textBuffer = line + "\n" + textBuffer
PushBack(line, rest) == line \o <<LF>> \o rest

\* A decoder that puts each delta in front of the running text.
AppendDeltaFront(text, content) == content \o text

\* A decoder that appends each delta twice.
AppendDeltaTwice(text, content) == text \o content \o content

\* fullResponse += content
AppendDelta(text, content) == text \o content

\* An updater that adds a message for every delta.
ShowDeltaAppends(prev, text) == Append(prev, AssistantMessage(text))

\* The updater passed to setMessages for a delta.
ShowDelta(prev, text) ==
  IF /\ prev # <<>>
     /\ prev[Len(prev)].role = "assistant"
     /\ prev[Len(prev)].id # "welcome"
  THEN [prev EXCEPT ![Len(prev)].content = text]
  ELSE Append(prev, AssistantMessage(text))

\* Where streamChat goes after data: [DONE].
AfterDone == "read"

\* The inner loop finds no line feed in the buffer.
LinesExhausted ==
  /\ cpc = "lines"
  /\ ~HasLine(textBuffer)
  /\ cpc' = "read"
  /\ UNCHANGED <<relayVars, streamVars, dbVars, running, user, messages, isLoading, question, textBuffer,
                 fullResponse, lineNo, toasts, outcome>>

\* A comment, an empty line or a line without the data prefix.
LineIgnored ==
  /\ cpc = "lines"
  /\ HasLine(textBuffer)
  /\ \E taken \in {TakeLine(textBuffer)} :
       /\ Ignored(taken.line)
       /\ textBuffer' = taken.rest
  /\ lineNo' = lineNo + 1
  /\ UNCHANGED <<relayVars, streamVars, dbVars, running, user, cpc, messages, isLoading, question,
                 fullResponse, toasts, outcome>>

\* data: [DONE] breaks out of the inner loop.
LineDone ==
  /\ cpc = "lines"
  /\ HasLine(textBuffer)
  /\ \E taken \in {TakeLine(textBuffer)} :
       /\ ~Ignored(taken.line)
       /\ \E jsonStr \in {JsonStr(taken.line)} : jsonStr = DoneToken
       /\ textBuffer' = taken.rest
  /\ lineNo' = lineNo + 1
  /\ cpc' = AfterDone
  /\ UNCHANGED <<relayVars, streamVars, dbVars, running, user, messages, isLoading, question,
                 fullResponse, toasts, outcome>>

\* The payload parses; a non-empty delta is appended and shown.
LineParsed ==
  /\ cpc = "lines"
  /\ HasLine(textBuffer)
  /\ \E taken \in {TakeLine(textBuffer)} :
       /\ ~Ignored(taken.line)
       /\ \E jsonStr \in {JsonStr(taken.line)} :
            /\ jsonStr # DoneToken
            /\ \E parsed \in {ParseDelta(jsonStr)} :
                 /\ ~parsed.threw
                 /\ textBuffer' = taken.rest
                 /\ IF parsed.content # <<>>
                    THEN /\ fullResponse' = AppendDelta(fullResponse, parsed.content)
                         /\ messages' = ShowDelta(messages, fullResponse')
                    ELSE UNCHANGED <<fullResponse, messages>>
  /\ lineNo' = lineNo + 1
  /\ UNCHANGED <<relayVars, streamVars, dbVars, running, user, cpc, isLoading, question, toasts, outcome>>

\* A decoder that goes on with the inner loop after a line failed to parse.
LineFailedContinues ==
  /\ cpc = "lines"
  /\ HasLine(textBuffer)
  /\ \E taken \in {TakeLine(textBuffer)} :
       /\ ~Ignored(taken.line)
       /\ \E jsonStr \in {JsonStr(taken.line)} :
            /\ jsonStr # DoneToken
            /\ ParseDelta(jsonStr).threw
            /\ textBuffer' = PushBack(taken.line, taken.rest)
  /\ UNCHANGED <<relayVars, streamVars, dbVars, running, user, cpc, messages, isLoading,
                 question, fullResponse, lineNo, toasts, outcome>>

\* The try block throws; the line goes back to the front of the buffer.
LineFailed ==
  /\ cpc = "lines"
  /\ HasLine(textBuffer)
  /\ \E taken \in {TakeLine(textBuffer)} :
       /\ ~Ignored(taken.line)
       /\ \E jsonStr \in {JsonStr(taken.line)} :
            /\ jsonStr # DoneToken
            /\ ParseDelta(jsonStr).threw
            /\ textBuffer' = PushBack(taken.line, taken.rest)
  /\ cpc' = "read"
  /\ UNCHANGED <<relayVars, streamVars, dbVars, running, user, messages, isLoading, question,
                 fullResponse, lineNo, toasts, outcome>>

\* --------------------------------------------- the trailing structure
\* The character U+0060, which a TLA+ string cannot hold, under its name.
Backtick == "U+0060"

Fence == <<Backtick, Backtick, Backtick>>

FenceJson == Fence \o <<"j", "s", "o", "n">>

HasAt(text, i, part) ==
  i >= 1 /\ i + Len(part) - 1 <= Len(text) /\ SubSeq(text, i, i + Len(part) - 1) = part

\* The first index >= i at which part occurs in text; 0 when there is none.
RECURSIVE Search(_, _, _)
Search(text, part, i) ==
  IF i + Len(part) - 1 > Len(text) THEN 0
  ELSE IF HasAt(text, i, part) THEN i
  ELSE Search(text, part, i + 1)

\* An extractor that reads the last block of the answer.
RECURSIVE LastBlock(_)
LastBlock(text) ==
  LET first == Search(text, FenceJson, 1)
      close == IF first = 0 THEN 0 ELSE Search(text, Fence, first + Len(FenceJson))
      rest == SubSeq(text, close + Len(Fence), Len(text))
  IN IF close = 0 THEN [found |-> FALSE, inner |-> <<>>]
     ELSE IF LastBlock(rest).found THEN LastBlock(rest)
     ELSE [found |-> TRUE,
           inner |-> Trim(SubSeq(text, first + Len(FenceJson), close - 1))]

\* response.match(/(fence)json\s*([\s\S]*?)\s*(fence)/): whether the text has a
\* fenced block, and the first capture group, the text between the fences
\* without the white space around it.
FencedBlock(text) ==
  LET open == Search(text, FenceJson, 1)
      close == IF open = 0 THEN 0 ELSE Search(text, Fence, open + Len(FenceJson))
  IN IF close = 0
     THEN [found |-> FALSE, inner |-> <<>>]
     ELSE [found |-> TRUE,
           inner |-> Trim(SubSeq(text, open + Len(FenceJson), close - 1))]

\* An array value of a parsed document.
Arr(items) == [t |-> "array", v |-> items]

\* Array.isArray(x); an array is truthy, so the guard
\* parsed.important_topics && Array.isArray(parsed.important_topics) is this.
IsArray(x) == x.t = "array"

Quoted(chars) == <<"\"">> \o chars \o <<"\"">>

RECURSIVE JoinComma(_)
JoinComma(parts) ==
  IF parts = <<>> THEN <<>>
  ELSE IF Len(parts) = 1 THEN parts[1]
  ELSE parts[1] \o <<",">> \o JoinComma(Tail(parts))

TopicsKey == <<"i", "m", "p", "o", "r", "t", "a", "n", "t", "_", "t", "o", "p", "i", "c", "s">>

SummaryKey == <<"s", "u", "m", "m", "a", "r", "y">>

\* The JSON text of a value: a string, or an array of strings.
ValueJson(x) ==
  IF IsArray(x)
  THEN <<"[">> \o JoinComma([k \in 1..Len(x.v) |-> Quoted(x.v[k])]) \o <<"]">>
  ELSE Quoted(x.v)

\* The JSON text of the object the model is asked to end its answer with; a
\* member whose value is undefined is left out.
BlockJson(doc) ==
  LET topics == IF doc.important_topics = Undefined THEN <<>>
                ELSE <<Quoted(TopicsKey) \o <<":">> \o ValueJson(doc.important_topics)>>
      summary == IF doc.summary = Undefined THEN <<>>
                 ELSE <<Quoted(SummaryKey) \o <<":">> \o ValueJson(doc.summary)>>
  IN <<"{">> \o JoinComma(topics \o summary) \o <<"}">>

\* The topic lists of the blocks: none, one, two, and the same topic twice.
TopicLists ==
  {<<>>, <<<<"A">>>>, <<<<"B">>>>, <<<<"A">>, <<"B">>>>, <<<<"A">>, <<"A">>>>}

\* The objects a block can hold: important_topics absent, a string or an array
\* of strings; summary absent or a string.
BlockDocs ==
  [important_topics : {Undefined, Str(<<"A">>)} \cup {Arr(l) : l \in TopicLists},
   summary : {Undefined, Str(<<"S">>), Str(<<"T">>)}]

\* A parser that takes any text for an object whose summary is the text.
ParseBlockLenient(inner) ==
  [threw |-> FALSE, parsed |-> [important_topics |-> Undefined, summary |-> Str(inner)]]

\* JSON.parse(jsonMatch[1]): the object, or an exception for a text that is
\* not JSON (of the texts between fences here, those that are no object above).
ParseBlock(inner) ==
  IF \E doc \in BlockDocs : BlockJson(doc) = inner
  THEN [threw |-> FALSE, parsed |-> CHOOSE doc \in BlockDocs : BlockJson(doc) = inner]
  ELSE [threw |-> TRUE, parsed |-> [important_topics |-> Undefined, summary |-> Undefined]]

\* What handleSend takes from the answer: summary, "" unless the first block
\* parses and has a non-empty one, and the topics, the elements of the block's
\* important_topics when that is an array.
Extract(text) ==
  LET jsonMatch == FencedBlock(text)
      block == ParseBlock(jsonMatch.inner)
  IN IF jsonMatch.found /\ ~block.threw
     THEN [summary |-> IF Truthy(block.parsed.summary) THEN block.parsed.summary.v ELSE <<>>,
           topics |-> IF IsArray(block.parsed.important_topics)
                      THEN block.parsed.important_topics.v ELSE <<>>]
     ELSE [summary |-> <<>>, topics |-> <<>>]

\* An extractor that stores the answer text as its summary.
SummaryIsAnswer(text) == text

\* The summary handleSend stores with the answer: the block's, or "".
SummaryOf(text) == Extract(text).summary

\* An extractor that keeps each topic once.
RECURSIVE Distinct(_)
Distinct(ts) ==
  IF ts = <<>> THEN <<>>
  ELSE LET init == Distinct(SubSeq(ts, 1, Len(ts) - 1))
       IN IF \E k \in 1..Len(init) : init[k] = ts[Len(ts)]
          THEN init ELSE Append(init, ts[Len(ts)])

\* The ai_answers record of an answer.
AnswerRecord(text, summary) ==
  [user_id |-> user.v, question |-> question, answer |-> text, summary |-> summary,
   subject |-> "General"]

\* Math.floor(Math.random() * 30) + 70 lies in 70..99; the smallest and the
\* largest value stand for the range.
ProbabilityFloor == 70

ProbabilitySpan == 30

Probabilities == {ProbabilityFloor, ProbabilityFloor + ProbabilitySpan - 1}

\* The important_topics record of a topic.
TopicRecord(topic, probability) ==
  [user_id |-> user.v, subject |-> "General", topic |-> topic,
   probability |-> probability]

\* An extractor that inserts each topic once.
InsertsForDistinct(text) ==
  [k \in 1..Len(Distinct(Extract(text).topics)) |->
     [table |-> "important_topics", item |-> Distinct(Extract(text).topics)[k]]]
  \o <<[table |-> "ai_answers", item |-> AnswerRecord(text, SummaryOf(text))]>>

\* The inserts handleSend makes for an answer when none of them rejects: one
\* per topic, then the answer.
InsertsFor(text) ==
  [k \in 1..Len(Extract(text).topics) |->
     [table |-> "important_topics", item |-> Extract(text).topics[k]]]
  \o <<[table |-> "ai_answers", item |-> AnswerRecord(text, SummaryOf(text))]>>

\* A page that saves whatever a signed-in user was answered.
ShouldSaveAnyAnswer == Truthy(user)

\* user && response
ShouldSave == Truthy(user) /\ fullResponse # <<>>

\* A decoder that parses what is left in the buffer when the stream ends.
ReadDoneFlushes ==
  /\ cpc = "read"
  /\ outcome' = "returned"
  /\ LET parsed == ParseDelta(JsonStr(textBuffer))
     IN fullResponse' =
          IF ~Ignored(textBuffer) /\ ~parsed.threw
          THEN AppendDelta(fullResponse, parsed.content)
          ELSE fullResponse
  /\ IF Truthy(user) /\ fullResponse' # <<>>
     THEN /\ pending' = InsertsFor(fullResponse')
          /\ cpc' = "insert"
          /\ UNCHANGED <<isLoading, running>>
     ELSE /\ Finally
          /\ UNCHANGED pending
  /\ UNCHANGED <<relayVars, streamVars, dbLog, user, messages, question, textBuffer,
                 lineNo, toasts>>

\* reader.read() reports the end of the stream: streamChat returns, and
\* handleSend goes on to its first insert, or to its end.
ReadDone ==
  /\ cpc = "read"
  /\ outcome' = "returned"
  /\ IF ShouldSave
     THEN /\ pending' = InsertsFor(fullResponse)
          /\ cpc' = "insert"
          /\ UNCHANGED <<isLoading, running>>
     ELSE /\ Finally
          /\ UNCHANGED pending
  /\ UNCHANGED <<relayVars, streamVars, dbLog, user, messages, question, textBuffer,
                 fullResponse, lineNo, toasts>>

InsertResults == {"stored", "error", "throws"}

\* A call that updates the records of the table.
UpdateCall(table, record, result) ==
  [op |-> "update", table |-> table, record |-> record, result |-> result]

\* supabase.from(table).insert(record), and how it settled.
InsertCall(table, record, result) ==
  [op |-> "insert", table |-> table, record |-> record, result |-> result]

\* The await of an insert settles: the record is stored, or the call resolves
\* with an error, which the code does not look at, or it rejects.  A topic insert that rejects ends the loop in
\* the inner catch and the answer is inserted next; the answer insert that
\* rejects ends in the outer catch.
InsertSettles ==
  /\ cpc = "insert"
  /\ \E result \in InsertResults, probability \in Probabilities :
       LET call == Head(pending)
           topic == call.table = "important_topics"
           record == IF topic THEN TopicRecord(call.item, probability) ELSE call.item
       IN /\ dbLog' = Append(dbLog, InsertCall(call.table, record, result))
          /\ IF result = "throws" /\ topic
             THEN /\ pending' = <<pending[Len(pending)]>>
                  /\ UNCHANGED <<cpc, isLoading, running, messages, toasts>>
             ELSE IF result = "throws"
             THEN /\ CatchSend("insert failed")
                  /\ pending' = <<>>
             ELSE IF Len(pending) > 1
             THEN /\ pending' = Tail(pending)
                  /\ UNCHANGED <<cpc, isLoading, running, messages, toasts>>
             ELSE /\ Finally
                  /\ pending' = <<>>
                  /\ UNCHANGED <<messages, toasts>>
  /\ UNCHANGED <<relayVars, streamVars, user, question, textBuffer, fullResponse,
                 lineNo, outcome>>

\* ------------------------------------------------- the answers extracted
Prose == <<"H", "e", "l">>

\* A fenced block as the model is asked to write it, on lines of its own.
Fenced(inner) == FenceJson \o <<LF>> \o inner \o <<LF>> \o Fence

\* A text between fences that is not JSON.
BadJson == <<"{", "o", "o", "p", "s">>

TwoTopics == [important_topics |-> Arr(<<<<"A">>, <<"B">>>>), summary |-> Str(<<"S">>)]

OtherTopic == [important_topics |-> Arr(<<<<"B">>>>), summary |-> Str(<<"T">>)]

\* The final answers streamChat returns to handleSend: no answer, prose alone,
\* prose with a fence that is not closed, with one block, with a block the
\* model wrote on one line, with a block that is not JSON, and with two blocks.
AnswerTexts ==
  {<<>>, Prose, Prose \o FenceJson \o <<LF>> \o BlockJson(TwoTopics)}
  \cup {Prose \o <<LF>> \o Fenced(BlockJson(doc)) : doc \in BlockDocs}
  \cup {FenceJson \o BlockJson(TwoTopics) \o Fence \o Prose,
        Prose \o Fenced(BadJson),
        Fenced(BlockJson(TwoTopics)) \o <<LF>> \o Fenced(BlockJson(OtherTopic)),
        Fenced(BlockJson(OtherTopic)) \o Prose \o Fenced(BlockJson(TwoTopics)),
        Fenced(BadJson) \o <<LF>> \o Fenced(BlockJson(TwoTopics))}

\* handleSend is called and streamChat returns the final answer to it: the
\* question and the answer are in the transcript, the view is loading.
AnswerStreamed ==
  /\ \E via \in Triggers : Enabled(via)
  /\ cpc = "idle"
  /\ Finished < MaxQuestions
  /\ \E text \in MessageTexts, answer \in AnswerTexts :
       /\ question' = text
       /\ fullResponse' = answer
       /\ messages' = IF answer = <<>> THEN Append(messages, UserMessage(text))
                      ELSE ShowDelta(Append(messages, UserMessage(text)), answer)
  /\ isLoading' = TRUE
  /\ running' = running + 1
  /\ cpc' = "read"
  /\ outcome' = "none"
  /\ pending' = <<>>
  /\ dbLog' = <<>>
  /\ UNCHANGED <<relayVars, streamVars, user, textBuffer, lineNo, toasts>>

\* handleSend is called and streamChat's fetch resolves with the event stream:
\* the question is in the transcript, the view is loading, the reader is taken.
StreamOpened ==
  /\ \E via \in Triggers : Enabled(via)
  /\ cpc = "idle"
  /\ Finished < MaxQuestions
  /\ \E text \in MessageTexts :
       /\ question' = text
       /\ messages' = Append(messages, UserMessage(text))
  /\ isLoading' = TRUE
  /\ running' = running + 1
  /\ cpc' = "read"
  /\ outcome' = "none"
  /\ events' = <<>>
  /\ rd' = 0
  /\ textBuffer' = <<>>
  /\ fullResponse' = <<>>
  /\ lineNo' = 0
  /\ pending' = <<>>
  /\ dbLog' = <<>>
  /\ UNCHANGED <<relayVars, sentLines, user, toasts>>

\* -------------------------------------------------------- specification
Init ==
  /\ keyConfigured \in BOOLEAN
  /\ rpc = "idle"
  /\ req = NoRequest
  /\ ctx = NoContext
  /\ upstream = NoUpstream
  /\ resp = NoResponse
  /\ rlog = NoLog
  /\ events = <<>>
  /\ rd = 0
  /\ sentLines = 0
  /\ user \in UserIdValues
  /\ cpc = "idle"
  /\ messages = <<WelcomeMessage>>
  /\ isLoading = FALSE
  /\ question = <<>>
  /\ textBuffer = <<>>
  /\ fullResponse = <<>>
  /\ lineNo = 0
  /\ toasts = <<>>
  /\ outcome = "none"
  /\ pending = <<>>
  /\ dbLog = <<>>
  /\ running = 0

\* The AskAI page and the relay that serves it.
Next ==
  \/ RelayServe
  \/ RelayJson
  \/ RelaySyllabus
  \/ RelayPapers
  \/ RelayFetch
  \/ RelayText
  \/ HandleSend
  \/ FetchSettles
  \/ ReadChunk
  \/ ReadFails
  \/ LinesExhausted
  \/ LineIgnored
  \/ LineDone
  \/ LineParsed
  \/ LineFailed
  \/ ReadDone
  \/ InsertSettles

Spec == Init /\ [][Next]_vars

\* The relay alone, serving the requests of any caller.
NextRelay ==
  \/ CallerRequest
  \/ CallerResponse
  \/ RelayServe
  \/ RelayJson
  \/ RelaySyllabus
  \/ RelayPapers
  \/ RelayFetch
  \/ RelayText

SpecRelay == Init /\ [][NextRelay]_vars

\* handleSend from the return of streamChat on, for every final answer.
NextExtract ==
  \/ AnswerStreamed
  \/ ReadDone
  \/ InsertSettles

SpecExtract == Init /\ [][NextExtract]_vars

\* The decoder on streams delivered line by line, for every kind of line.
NextLines ==
  \/ StreamOpened
  \/ ReadLines
  \/ LinesExhausted
  \/ LineIgnored
  \/ LineDone
  \/ LineParsed
  \/ LineFailed
  \/ ReadDone
  \/ InsertSettles

\* A relay that streams has its credential.
InitLines == Init /\ keyConfigured

SpecLines == InitLines /\ [][NextLines]_vars

\* The inner loop of streamChat runs on without an await.
InnerLoop == LinesExhausted \/ LineIgnored \/ LineDone \/ LineParsed \/ LineFailed

\* The same for streams that end: the inner loop runs to its end, and a read
\* that can only report the end of the stream does report it.
SpecLinesFair ==
  SpecLines /\ WF_vars(InnerLoop) /\ WF_vars(ReadDone)

\* ------------------------------------------------------ decoder properties
\* The characters the reader has delivered so far.
Delivered == SubSeq(BodyOf(events), 1, rd)

\* How many of the events have arrived with their line feed.
CompleteLines ==
  IF rd = Len(BodyOf(events)) THEN Len(events) ELSE Len(events) - 1

RECURSIVE Concat(_)
Concat(ss) == IF ss = <<>> THEN <<>> ELSE Head(ss) \o Concat(Tail(ss))

\* The text the provider means by the events ks, in order.
Deltas(ks) == Concat([i \in 1..Len(ks) |-> EventDelta(ks[i])])

\* The delivered characters that follow the first n lines.
AfterLines(n) == SubSeq(Delivered, Len(BodyOf(SubSeq(events, 1, n))) + 1, rd)

Decoding == cpc \in {"read", "lines"}

\* Well-formed data lines: deltas, with or without text.
DeltaKinds == {"Hel", "lo", "NoDelta"}

LastContent == messages[Len(messages)].content

\* C1: for a stream of well-formed, line-feed-terminated delta lines, cut into
\* chunks anywhere, the text streamChat returns is the concatenation of the
\* deltas in arrival order, whatever the chunk boundaries were; and whenever
\* streamChat waits for the next chunk, the running text is the concatenation of
\* the deltas of the lines that have arrived in full.
C1_Concatenation ==
  (\A i \in 1..Len(events) : events[i] \in DeltaKinds) =>
    /\ (outcome = "returned" /\ rd = Len(BodyOf(events))) =>
         fullResponse = Deltas(events)
    /\ cpc = "read" => fullResponse = Deltas(SubSeq(events, 1, CompleteLines))

C1_Witness ==
  /\ outcome = "returned"
  /\ events = <<"Hel", "lo">>
  /\ rd = Len(BodyOf(events))
  /\ fullResponse = <<"H", "e", "l", "l", "o">>

\* C2 (as claimed): once a line data: [DONE] has been processed, no delta of a
\* data line that follows it, in the same chunk or a later one, is appended to the
\* running text or shown in the in-progress message.
C2_NothingAfterDone ==
  \A i \in 1..lineNo :
    events[i] = "Done" =>
      /\ fullResponse = Deltas(SubSeq(events, 1, i))
      /\ fullResponse # <<>> => LastContent = Deltas(SubSeq(events, 1, i))

\* C3: a line is parsed only once its line feed has arrived, until then its
\* characters stay at the end of the buffer, and every line the decoder has
\* consumed has contributed its delta exactly once and in order; unless a
\* terminator or a malformed line stopped the loop, every line that has arrived
\* in full has been consumed when streamChat waits for the next chunk.
C3_SplitLineOnce ==
  (Decoding \/ outcome = "returned") =>
    /\ lineNo <= CompleteLines
    /\ fullResponse = Deltas(SubSeq(events, 1, lineNo))
    /\ EndsWith(textBuffer, AfterLines(CompleteLines))
    /\ (/\ cpc = "read"
        /\ \A i \in 1..CompleteLines : events[i] \notin {"Done", "Truncated"})
       => /\ lineNo = CompleteLines
          /\ textBuffer = AfterLines(CompleteLines)

\* A delta line cut exactly between the data prefix and its JSON payload.
C3_Witness ==
  /\ cpc = "read"
  /\ events = <<"Hel", "lo">>
  /\ rd = Len(BodyOf(<<"Hel">>)) + PrefixLen
  /\ textBuffer = DataPrefix
  /\ fullResponse = <<"H", "e", "l">>

\* The line at the front of the buffer is a malformed one that arrived in full.
MalformedAtFront ==
  /\ Decoding
  /\ lineNo < CompleteLines
  /\ events[lineNo + 1] = "Truncated"

\* The malformed line is at the front of the buffer as the decoder puts it back:
\* on the wire it ends in CR LF, put back it ends in LF alone.
PutBack ==
  /\ MalformedAtFront
  /\ StartsWith(textBuffer, EventLine("Truncated") \o <<LF>>)

\* C4: a payload that fails to parse raises nothing and loses nothing: the line
\* goes back to the front of the buffer, re-joined with a line feed, ahead of the
\* unprocessed remainder; the running text and the transcript are unchanged; the
\* inner loop stops; and after the next read the same line is the first one parsed.
C4_PushBackOnParseFailure ==
  [][/\ (cpc = "lines" /\ MalformedAtFront) =>
          /\ textBuffer' = EventLine("Truncated") \o <<LF>> \o AfterLines(lineNo + 1)
          /\ cpc' = "read"
          /\ UNCHANGED <<fullResponse, messages, toasts, isLoading, outcome, lineNo>>
     /\ (cpc = "read" /\ PutBack /\ cpc' = "lines") =>
          /\ StartsWith(textBuffer', EventLine("Truncated") \o <<LF>>)
          /\ lineNo' = lineNo]_vars

C4_Witness ==
  /\ cpc = "read"
  /\ events = <<"Truncated", "Hel">>
  /\ rd = Len(BodyOf(events))
  /\ textBuffer = EventLine("Truncated") \o <<LF>> \o EventLine("Hel") \o <<LF>>
  /\ fullResponse = <<>>

\* C5 (as claimed): a malformed line does not keep the deltas of the well-formed
\* lines after it from the running text: a stream without terminator that ended
\* after its last line feed returns the deltas of all its well-formed lines.
C5_DeltasAfterMalformed ==
  (/\ outcome = "returned"
   /\ rd = Len(BodyOf(events))
   /\ \A i \in 1..Len(events) : events[i] # "Done")
  => fullResponse = Deltas(events)

\* -------------------------------------------------------- relay properties
Responded == rpc = "responded"

PostedObject == req.method = "POST" /\ req.json = "object"

\* C6: a POST whose question is missing or empty is answered 400 with
\* {error: "Question is required"}, with no upstream call and no query.
C6_MissingQuestionIs400 ==
  (Responded /\ PostedObject /\ req.question \in {Undefined, Str(<<>>)}) =>
    /\ resp.status = 400
    /\ resp.body = "json"
    /\ resp.error = "Question is required"
    /\ rlog.upstreamCalls = 0
    /\ rlog.dbQueries = 0

C6_Witness ==
  /\ Responded
  /\ PostedObject
  /\ req.question = Str(<<>>)
  /\ Truthy(req.userId)
  /\ keyConfigured
  /\ resp.status = 400

\* C7 (as claimed): an empty or whitespace-only question is answered 400 without
\* contacting the upstream provider.
C7_BlankQuestionIs400 ==
  (/\ keyConfigured
   /\ PostedObject
   /\ req.question.t = "string"
   /\ Trim(req.question.v) = <<>>)
  => /\ rlog.upstreamCalls = 0
     /\ Responded => resp.status = 400

\* The handler's fetch was answered with a non-success status.
UpstreamFailed == upstream.status # 0 /\ ~Ok(upstream.status)

C9_SuccessPassthrough ==
  (Responded /\ Ok(upstream.status)) =>
    /\ resp.status = 200
    /\ resp.ctype = "text/event-stream"
    /\ resp.error = ""
    /\ resp.body = IF upstream.hasBody THEN "upstream" ELSE "none"

C9_Witness ==
  /\ Responded
  /\ upstream.status = 200
  /\ upstream.hasBody
  /\ resp.body = "upstream"

\* C10: an OPTIONS request is answered at once with a success status, the
\* permissive cross-origin headers and no body; the request body is not read,
\* the credential not looked up, and neither the upstream provider nor the
\* persistence collaborator is contacted.
C10_Preflight ==
  req.method = "OPTIONS" =>
    /\ rpc \in {"received", "responded"}
    /\ rlog = NoLog
    /\ Responded =>
         /\ Ok(resp.status)
         /\ resp.cors
         /\ resp.body = "none"

C10_Witness ==
  /\ Responded
  /\ req.method = "OPTIONS"
  /\ resp.status = 200

\* The request ended on a failure path: an exception, or a response that is
\* not the event stream.
FailurePath == rlog.thrown # "" \/ ~Ok(resp.status)

\* C11: no exception escapes the handler: every failure path of a POST ends in
\* a response whose body is a JSON object {error: string}, and an exception
\* raised inside the handler is answered 500 with the exception's message.
C11_FailuresAreJsonErrors ==
  (Responded /\ req.method = "POST") =>
    /\ FailurePath =>
         /\ resp.body = "json"
         /\ resp.ctype = "application/json"
         /\ resp.error # ""
         /\ resp.status \in {400, 402, 429, 500}
    /\ rlog.thrown # "" =>
         /\ resp.status = 500
         /\ resp.error = rlog.thrown
    /\ (req.json # "object" \/ (~QuestionMissing(req.question) /\ ~keyConfigured))
         => rlog.thrown # ""

\* The persistence query of a signed-in caller raised an exception.
C11_Witness ==
  /\ Responded
  /\ req.method = "POST"
  /\ rlog.dbQueries = 2
  /\ rlog.upstreamCalls = 0
  /\ rlog.thrown = "query failed"
  /\ resp.status = 500

\* C12: in handling one request the relay calls the upstream endpoint at most
\* once, whatever the upstream status or failure.
C12_NoRetries ==
  /\ rlog.upstreamCalls <= 1
  /\ (upstream.status # 0 \/ rpc \in {"fetch", "text"}) => rlog.upstreamCalls = 1

\* The upstream call failed and the request has been answered.
C12_Witness ==
  /\ Responded
  /\ upstream.status = 500
  /\ resp.status = 500
  /\ rlog.upstreamCalls = 1

\* ---------------------------------------------------- extraction properties
SignedIn == Truthy(user)

\* handleSend has reached its end after streamChat returned.
Done == cpc = "idle" /\ outcome = "returned"

\* The calls made on a table, in the order they were made.
Calls(table) == SelectSeq(dbLog, LAMBDA c : c.table = table)

TopicCalls == Calls("important_topics")

AnswerCalls == Calls("ai_answers")

\* The topics of the topic records, in the order they were inserted.
TopicsInserted == [k \in 1..Len(TopicCalls) |-> TopicCalls[k].record.topic]

TopicRejected == \E k \in 1..Len(TopicCalls) : TopicCalls[k].result = "throws"

\* Exactly one ai_answers record was inserted, after every topic record, for
\* this user and question, with the raw answer and this summary.
OneAnswer(summary) ==
  /\ Len(AnswerCalls) = 1
  /\ dbLog[Len(dbLog)] = AnswerCalls[1]
  /\ AnswerCalls[1].op = "insert"
  /\ AnswerCalls[1].record =
       [user_id |-> user.v, question |-> question, answer |-> fullResponse,
        summary |-> summary, subject |-> "General"]

\* The answers without a fenced block: prose, and prose with an open fence.
NoBlockAnswers == {Prose, Prose \o FenceJson \o <<LF>> \o BlockJson(TwoTopics)}

\* C13: for a signed-in user and a non-empty answer without a fenced json block,
\* handleSend inserts no important_topics record and exactly one ai_answers
\* record, with the raw answer and the empty string as summary.
C13_NoBlock ==
  (Done /\ SignedIn /\ fullResponse \in NoBlockAnswers) =>
    /\ TopicCalls = <<>>
    /\ OneAnswer(<<>>)

C13_Witness ==
  /\ Done
  /\ SignedIn
  /\ fullResponse = Prose
  /\ Len(dbLog) = 1
  /\ dbLog[1].table = "ai_answers"
  /\ dbLog[1].result = "stored"
  /\ dbLog[1].record.summary = <<>>

BadBlockAnswer == Prose \o Fenced(BadJson)

\* handleSend is past streamChat, which returned this answer to a signed-in user.
Persisting(answer) ==
  SignedIn /\ fullResponse = answer /\ cpc \in {"read", "insert"}

\* C14: when the block is found but its content does not parse, handleSend
\* raises nothing and goes on as if there were no block: no important_topics
\* record, one ai_answers record with the raw answer and an empty summary, and,
\* unless the insert of that record rejects, no notification and no apology:
\* the transcript and the notifications stay as they were when the stream ended.
C14_BadBlock ==
  [][Persisting(BadBlockAnswer) =>
       /\ cpc' \in {"insert", "idle"}
       /\ (dbLog' = <<>> \/ dbLog'[Len(dbLog')].result # "throws")
            => UNCHANGED <<toasts, messages>>
       /\ cpc' = "idle" =>
            /\ Len(dbLog') = 1
            /\ dbLog'[1].op = "insert"
            /\ dbLog'[1].table = "ai_answers"
            /\ dbLog'[1].record.answer = BadBlockAnswer
            /\ dbLog'[1].record.summary = <<>>]_vars

C14_Witness ==
  /\ Done
  /\ SignedIn
  /\ fullResponse = BadBlockAnswer
  /\ Len(dbLog) = 1
  /\ dbLog[1].result = "stored"
  /\ toasts = <<>>
  /\ messages[Len(messages)] = AssistantMessage(BadBlockAnswer)

\* The answer that ends in a block holding this object.
BlockAnswer(doc) == Prose \o <<LF>> \o Fenced(BlockJson(doc))

\* The summary of an object: its summary member, "" when it has none.
SummaryMember(doc) == IF doc.summary = Undefined THEN <<>> ELSE doc.summary.v

TwoThenOther == Fenced(BlockJson(TwoTopics)) \o <<LF>> \o Fenced(BlockJson(OtherTopic))

OtherThenTwo == Fenced(BlockJson(OtherTopic)) \o Prose \o Fenced(BlockJson(TwoTopics))

BadThenTwo == Fenced(BadJson) \o <<LF>> \o Fenced(BlockJson(TwoTopics))

\* C16: of several fenced blocks only the first in the text is used: topics and
\* summary are those of the first block, and a later block gives no record,
\* also when the first block does not parse.
C16_FirstBlockOnly ==
  (Done /\ SignedIn /\ ~TopicRejected) =>
    /\ fullResponse = TwoThenOther =>
         TopicsInserted = <<<<"A">>, <<"B">>>> /\ OneAnswer(<<"S">>)
    /\ fullResponse = OtherThenTwo =>
         TopicsInserted = <<<<"B">>>> /\ OneAnswer(<<"T">>)
    /\ fullResponse = BadThenTwo =>
         TopicsInserted = <<>> /\ OneAnswer(<<>>)

C16_Witness ==
  /\ Done
  /\ SignedIn
  /\ fullResponse = OtherThenTwo
  /\ Len(dbLog) = 2
  /\ dbLog[1].record.topic = <<"B">>
  /\ dbLog[2].record.summary = <<"T">>

\* C17: all the extraction pass does to the database is insert into
\* important_topics and ai_answers: no update, no delete, no other table; and
\* with nobody signed in, or no answer, it does nothing at all.
C17_InsertsOnly ==
  /\ \A k \in 1..Len(dbLog) :
       /\ dbLog[k].op = "insert"
       /\ dbLog[k].table \in {"important_topics", "ai_answers"}
  /\ (~SignedIn \/ fullResponse = <<>>) => dbLog = <<>>

C17_Witness ==
  /\ Done
  /\ SignedIn
  /\ fullResponse = BlockAnswer([important_topics |-> Arr(<<<<"A">>>>), summary |-> Undefined])
  /\ Len(dbLog) = 2
  /\ dbLog[1].table = "important_topics"
  /\ dbLog[1].result = "error"
  /\ dbLog[2].table = "ai_answers"

\* ----------------------------------------------------------- page properties
\* C18: in one session there is at every moment at most one call of handleSend
\* under way, hence at most one outstanding relay call and one decode loop: the
\* send button, the Enter key and the suggested-question buttons cannot start
\* handleSend while isLoading is true.
C18_OneQuestionAtATime ==
  /\ running \in {0, 1}
  /\ isLoading <=> running = 1
  /\ isLoading <=> cpc # "idle"
  /\ isLoading => \A via \in Triggers : ~Enabled(via)
  /\ rpc # "idle" => cpc = "fetch"

\* The decode loop is under way and has shown a part of the answer.
C18_Witness ==
  /\ isLoading
  /\ running = 1
  /\ cpc = "lines"
  /\ fullResponse = <<"H", "e", "l">>
  /\ messages[Len(messages)] = AssistantMessage(<<"H", "e", "l">>)

\* streamChat's fetch has resolved with a response streamChat rejects.
FetchRejected ==
  /\ cpc = "fetch"
  /\ rpc = "responded"
  /\ ~Ok(resp.status) \/ resp.body = "none"

\* C19: whenever streamChat fails, on a relay status 429, 402 or any other
\* non-success status, on a missing body, or on an error while the stream is
\* read, a notification is raised, the apology is appended to the transcript as
\* an assistant message, and isLoading returns to false.
C19_FailureIsShown ==
  [][((FetchRejected /\ cpc' # "fetch") \/ (outcome # "error" /\ outcome' = "error")) =>
       /\ Len(toasts') = Len(toasts) + 1
       /\ toasts'[Len(toasts')] # ""
       /\ messages' = Append(messages, [id |-> "uuid", role |-> "assistant",
                                        content |-> ApologyText])
       /\ ~isLoading'
       /\ cpc' = "idle"
       /\ outcome' = "error"]_vars

\* The relay passed on the provider's 429.
C19_Witness ==
  /\ outcome = "error"
  /\ ~isLoading
  /\ toasts = <<"Rate limit exceeded. Please try again in a moment.">>
  /\ messages[Len(messages)].content = ApologyText
  /\ messages[Len(messages) - 1].role = "user"

\* An insert of the run resolved with an error or rejected.
WriteFailed == \E k \in 1..Len(dbLog) : dbLog[k].result \in {"error", "throws"}

\* C20 (as claimed): a persistence write that fails after a completed stream is
\* reported as a notification, and the assistant message shown for the question
\* keeps the content it had when the stream ended.
C20_WriteFailureReported ==
  (Done /\ SignedIn /\ WriteFailed) =>
    /\ toasts # <<>>
    /\ \E i \in 1..Len(messages) : messages[i] = AssistantMessage(fullResponse)

\* ------------------------------------------------- rate limit, end to end
RateLimitNotice == "Rate limit exceeded. Please try again in a moment."

\* handleSend ended in its catch block on streamChat's rate-limit error.
RateLimitShown ==
  /\ cpc = "idle"
  /\ outcome = "error"
  /\ toasts # <<>>
  /\ toasts[Len(toasts)] = RateLimitNotice

\* C21: when the upstream provider answers 429 the relay returns 429 with the
\* rate-limit message, and streamChat fails before it reads the body: the
\* decoder receives no event, the running text stays empty, the transcript gets
\* no streamed assistant message for the question (the question is followed by
\* the apology alone), and nothing is written to the database.
C21_RateLimited ==
  /\ (Responded /\ upstream.status = 429) =>
       /\ resp.status = 429
       /\ resp.body = "json"
       /\ resp.error = "Rate limit exceeded. Please try again later."
       /\ req.from = "client" =>
            /\ cpc = "fetch"
            /\ events = <<>> /\ rd = 0
            /\ textBuffer = <<>> /\ fullResponse = <<>>
            /\ dbLog = <<>> /\ pending = <<>>
            /\ messages[Len(messages)] = UserMessage(question)
  /\ RateLimitShown =>
       /\ events = <<>> /\ rd = 0
       /\ textBuffer = <<>> /\ fullResponse = <<>>
       /\ dbLog = <<>> /\ pending = <<>>
       /\ ~isLoading
       /\ messages[Len(messages)] = AssistantMessage(ApologyText)
       /\ messages[Len(messages) - 1] = UserMessage(question)

\* A signed-in user's question was rate-limited: the transcript is the welcome,
\* the question and the apology.
C21_Witness ==
  /\ RateLimitShown
  /\ SignedIn
  /\ messages = <<WelcomeMessage, UserMessage(<<"q">>), AssistantMessage(ApologyText)>>
  /\ dbLog = <<>>
  /\ sentLines = 0

\* ------------------------------------------------ the in-progress message
\* The place of the last user message in the transcript, 0 when there is none.
LastUser ==
  CHOOSE i \in 0..Len(messages) :
    /\ i = 0 \/ messages[i].role = "user"
    /\ \A j \in (i + 1)..Len(messages) : messages[j].role # "user"

\* The step applies a delta to the running text.
DeltaApplied == Decoding /\ Decoding' /\ fullResponse' # fullResponse

\* C22: deltas are applied to the in-progress assistant message in arrival
\* order and by the decode loop alone: a step that applies a delta appends the
\* delta of the next line to the running text, and leaves the transcript as the
\* messages up to the question followed by one assistant message holding the
\* running text, which before the step held the running text of before; no step
\* changes a message other than the last, and outside the decode loop no step
\* changes a message at all, so the answer stays as it was when the stream ended.
C22_DeltasInOrder ==
  [][/\ Len(messages') >= Len(messages)
     /\ \A i \in 1..Len(messages) :
          (i < Len(messages) \/ cpc # "lines") => messages'[i] = messages[i]
     /\ DeltaApplied =>
          /\ cpc = "lines"
          /\ lineNo' = lineNo + 1
          /\ fullResponse' = fullResponse \o EventDelta(events[lineNo'])
          /\ messages' = SubSeq(messages, 1, LastUser) \o <<AssistantMessage(fullResponse')>>
          /\ messages[LastUser] = UserMessage(question)
          /\ IF fullResponse = <<>>
             THEN Len(messages) = LastUser
             ELSE /\ Len(messages) = LastUser + 1
                  /\ messages[Len(messages)] = AssistantMessage(fullResponse)
     /\ (Decoding /\ Decoding' /\ fullResponse' = fullResponse) => messages' = messages
    ]_vars

\* Two deltas were applied to the one message of the answer.
C22_Witness ==
  /\ Decoding
  /\ events = <<"Hel", "lo">>
  /\ lineNo = 2
  /\ fullResponse = <<"H", "e", "l", "l", "o">>
  /\ messages = <<WelcomeMessage, UserMessage(<<"q">>),
                  AssistantMessage(<<"H", "e", "l", "l", "o">>)>>

\* --------------------------------------------- credential, context, order
KeyMessage == "LOVABLE_API_KEY is not configured"

\* C23: when the model credential is not configured, a POST with a question is
\* answered 500 with an {error} payload, and the upstream provider is not called.
C23_NoCredentialIs500 ==
  (PostedObject /\ Truthy(req.question) /\ ~keyConfigured) =>
    /\ rpc \in {"received", "json", "responded"}
    /\ rlog.upstreamCalls = 0
    /\ upstream = NoUpstream
    /\ Responded =>
         /\ resp.status = 500
         /\ resp.body = "json"
         /\ resp.ctype = "application/json"
         /\ resp.error = KeyMessage

C23_Witness ==
  /\ Responded
  /\ PostedObject
  /\ req.question = Str(<<"q">>)
  /\ Truthy(req.userId)
  /\ ~keyConfigured
  /\ resp.status = 500
  /\ rlog.keyRead

Placeholders ==
  [syllabus |-> "No syllabus uploaded yet", papers |-> "No past papers uploaded yet"]

\* A query that settled without records: data is null, or an empty list.
NoData == {"null", "empty"}

\* The request is past validation and the credential check.
PastChecks ==
  /\ PostedObject
  /\ Truthy(req.question)
  /\ keyConfigured
  /\ rpc \notin {"received", "json"}

\* C24: the relay queries the syllabus and past-paper records only when a user
\* identifier is present; when it is absent, or a query comes back with no rows
\* or no data, the context line sent upstream is the placeholder, and the
\* request goes on to the upstream call: only a query that raises stops it.
C24_ContextOrPlaceholder ==
  /\ (rlog.dbQueries > 0 \/ rlog.results # <<>>) => Truthy(req.userId)
  /\ rlog.upstreamCalls = 1 =>
       IF Truthy(req.userId)
       THEN /\ Len(rlog.results) = 2
            /\ rlog.results[1] \in NoData <=> rlog.prompt.syllabus = Placeholders.syllabus
            /\ rlog.results[2] \in NoData <=> rlog.prompt.papers = Placeholders.papers
       ELSE /\ rlog.results = <<>>
            /\ rlog.dbQueries = 0
            /\ rlog.prompt = Placeholders
  /\ PastChecks =>
       /\ ~Truthy(req.userId) => rlog.upstreamCalls = 1
       /\ (Len(rlog.results) = 2 /\ rlog.results[2] # "throws") => rlog.upstreamCalls = 1
       /\ (Len(rlog.results) = 1 /\ rlog.results[1] \in NoData) => rpc = "papers"
       /\ (Responded /\ rlog.upstreamCalls = 0) =>
            /\ rlog.results[Len(rlog.results)] = "throws"
            /\ resp.status = 500

\* Neither query of a signed-in caller found anything, and the answer streams.
C24_Witness ==
  /\ Responded
  /\ Truthy(req.userId)
  /\ rlog.results = <<"null", "empty">>
  /\ rlog.prompt = Placeholders
  /\ rlog.upstreamCalls = 1
  /\ resp.status = 200
  /\ resp.body = "upstream"

\* C29: in the relay the question is validated before anything else is looked
\* at: a request whose question is missing or empty is answered 400 also when
\* the credential is not configured, and the credential has not been read by
\* then; the credential check in turn comes before every persistence query and
\* before the upstream call.
C29_ValidationFirst ==
  /\ (Responded /\ PostedObject /\ req.question \in {Undefined, Str(<<>>)}) =>
       /\ resp.status = 400
       /\ resp.error = "Question is required"
       /\ ~rlog.keyRead
  /\ rlog.keyRead => rlog.bodyRead /\ Truthy(req.question)
  /\ ~rlog.keyRead =>
       /\ rlog.dbQueries = 0
       /\ rlog.results = <<>>
       /\ rlog.upstreamCalls = 0
  /\ (rlog.keyRead /\ ~keyConfigured) =>
       /\ rlog.dbQueries = 0
       /\ rlog.upstreamCalls = 0
       /\ Responded
       /\ resp.status = 500

\* A request without question reached a relay without credential.
C29_Witness ==
  /\ Responded
  /\ PostedObject
  /\ req.question = Undefined
  /\ Truthy(req.userId)
  /\ ~keyConfigured
  /\ resp.status = 400
  /\ rlog.bodyRead

\* ----------------------------------------------------- the empty answer
\* How many apologies the transcript holds.
Apologies ==
  Cardinality({i \in 1..Len(messages) : messages[i].content = ApologyText})

\* C28: when the stream completes and no delta with text has arrived, so that
\* streamChat returns the empty string, handleSend adds no assistant message,
\* raises no notification, appends no apology, writes nothing to the database
\* and sets isLoading back to false: the transcript ends with the question.
C28_EmptyAnswer ==
  (Done /\ fullResponse = <<>>) =>
    /\ messages[Len(messages)] = UserMessage(question)
    /\ dbLog = <<>>
    /\ pending = <<>>
    /\ ~isLoading
    /\ running = 0
    /\ Len(toasts) = Apologies
    /\ Asked = 1 => toasts = <<>>

\* A signed-in user's stream held a delta without text and the terminator.
C28_Witness ==
  /\ Done
  /\ SignedIn
  /\ events = <<"NoDelta", "Done">>
  /\ rd = Len(BodyOf(events))
  /\ lineNo = 2
  /\ fullResponse = <<>>
  /\ messages = <<WelcomeMessage, UserMessage(<<"q">>)>>
  /\ toasts = <<>>

\* ------------------------------------------------- the end of the stream
\* The characters delivered after the last line feed.
UnterminatedTail == AfterLines(CompleteLines)

\* C27: when the stream ends, what is in the buffer after the last line feed
\* is never processed: it is still the end of the buffer, the lines consumed
\* are lines that arrived with their line feed, and a last data line that
\* arrived whole but without its line feed has added nothing to the text
\* streamChat returns.
C27_TailNotProcessed ==
  (outcome = "returned" /\ rd < Len(BodyOf(events))) =>
    /\ UnterminatedTail # <<>>
    /\ EndsWith(textBuffer, UnterminatedTail)
    /\ lineNo < Len(events)
    /\ fullResponse = Deltas(SubSeq(events, 1, lineNo))
    /\ \E n \in 0..(Len(events) - 1) : fullResponse = Deltas(SubSeq(events, 1, n))

\* The line of the second delta arrived whole, without its CR LF, and the
\* stream ended: the text returned is the first delta.
C27_Witness ==
  /\ Done
  /\ events = <<"Hel", "lo">>
  /\ UnterminatedTail = EventLine("lo")
  /\ textBuffer = EventLine("lo")
  /\ lineNo = 1
  /\ fullResponse = <<"H", "e", "l">>

\* ------------------------------------------------------- lines without data
AllWhitespace(line) == \A i \in 1..Len(line) : line[i] \in Whitespace

\* A line that starts with the comment marker, is empty or white space only,
\* or does not start with the six characters of the data prefix.
NoOpLine(line) ==
  \/ line # <<>> /\ line[1] = ":"
  \/ AllWhitespace(line)
  \/ Len(line) < PrefixLen
  \/ \E i \in 1..PrefixLen : line[i] # DataPrefix[i]

\* The lines of the stream from the n-th on, as they arrived.
LinesFrom(n) == Emitted(SubSeq(events, n, Len(events)))

\* C25: a complete line that starts with ':', is empty or white space only, or
\* does not start with 'data: ' is consumed as a no-op: the step that takes it
\* off the buffer leaves the running text, the transcript and the
\* notifications as they are, does not end streamChat, puts nothing back, and
\* stays in the inner loop, with the lines after it at the front of the buffer.
C25_NoOpLines ==
  [][(/\ cpc = "lines"
      /\ lineNo < Len(events)
      /\ NoOpLine(EventLine(events[lineNo + 1])))
     => /\ textBuffer = LinesFrom(lineNo + 1)
        /\ textBuffer' = LinesFrom(lineNo + 2)
        /\ lineNo' = lineNo + 1
        /\ cpc' = "lines"
        /\ UNCHANGED <<fullResponse, messages, toasts, outcome, isLoading, events>>]_vars

\* A line of white space was followed by a delta, and both are consumed.
C25_Witness ==
  /\ cpc = "lines"
  /\ events = <<"Space", "Hel">>
  /\ lineNo = 2
  /\ textBuffer = <<>>
  /\ fullResponse = <<"H", "e", "l">>
  /\ toasts = <<>>

\* ------------------------------------------------------------ termination
\* The buffer starts with a line that will never parse.
MalformedLineHeld ==
  /\ lineNo < Len(events)
  /\ events[lineNo + 1] \in {"Truncated", "Bare"}
  /\ StartsWith(textBuffer, EventLine(events[lineNo + 1]) \o <<LF>>)

\* C26: on a stream that delivers finitely many chunks and then ends,
\* streamChat terminates and returns the running text, also when the buffer
\* holds a line that never parses: each run of the inner loop ends in the next
\* read, a line put back is not parsed again before that read, and the read
\* that reports the end of the stream makes streamChat return.
C26_DecodingEnds ==
  /\ (cpc = "lines") ~> (cpc = "read")
  /\ Decoding ~> (outcome = "returned" /\ ~Decoding)

\* streamChat returned with a malformed line still in its buffer, ahead of a
\* delta that was never applied.
C26_Witness ==
  /\ Done
  /\ events = <<"Truncated", "Hel">>
  /\ MalformedLineHeld
  /\ lineNo = 0
  /\ fullResponse = <<>>
  /\ textBuffer = EventLine("Truncated") \o <<LF>> \o EventLine("Hel") \o <<LF>>

\* ------------------------------------------------------ the order of writes
\* C30 (as claimed): the writes of one answer are made one after the other,
\* the topic records in list order and the answer record after them; when a
\* topic insert raises, neither the remaining topics nor the answer record are
\* written and the apology is appended after the answer shown; and nothing is
\* written when nobody is signed in.
C30_WritesInOrder ==
  /\ ~SignedIn => dbLog = <<>>
  /\ \A k \in 1..Len(dbLog) :
       dbLog[k].table = "ai_answers" => k = Len(dbLog)
  /\ \A k \in 1..Len(TopicCalls) :
       TopicCalls[k].record.topic = Extract(fullResponse).topics[k]
  /\ (cpc = "idle" /\ TopicRejected) =>
       /\ dbLog[Len(dbLog)].result = "throws"
       /\ dbLog[Len(dbLog)].table = "important_topics"
       /\ AnswerCalls = <<>>
       /\ messages[Len(messages)] = AssistantMessage(ApologyText)
       /\ messages[Len(messages) - 1] = AssistantMessage(fullResponse)

====
